---- MODULE Spec2Model ----
(***************************************************************************)
(* Session lifecycle and process orchestration of cliagents.               *)
(*                                                                         *)
(* SessionManager (core/session-manager.js) keeps the registry of logical  *)
(* sessions; every adapter (adapters/*.js) keeps its own session map and   *)
(* its activeProcesses map and runs one child process per send.            *)
(*                                                                         *)
(* JavaScript runs on one thread: an async function runs without           *)
(* interruption up to its next await.  The model has one action per such   *)
(* segment.  A segment that follows an await on work that is already done  *)
(* (a "hop": a promise that is resolved without I/O) runs before the event *)
(* loop takes the next I/O event or timer, so the I/O actions are guarded  *)
(* by ~HopPending; calls of the public API can come at any point.          *)
(***************************************************************************)
EXTENDS Integers, Sequences, FiniteSets, TLC

\* ------------------------------------------------------------------ bounds
MaxProcs == 2        \* child processes spawned in one behaviour
MaxTime == 2         \* clock ticks
MaxMsgs == 2         \* sends started on one session record
MaxChunks == 2       \* progress events of one send
MaxLines == 3        \* lines a child writes to stdout in one send
MaxRead == 3         \* pieces of text in one chunk of stdout
MaxResponseSize == 2 \* config.maxResponseSize, in pieces of text
MaxSends == 5        \* sends started on one adapter session
MaxTokens == 3       \* conversation ids the CLI issues

\* --------------------------------------------------- configuration options
MaxSessions == 2     \* options.maxSessions
SessionTimeout == 1  \* options.sessionTimeout, in clock ticks

\* The session identifiers that callers supply or the generator draws, and
\* the slots for API calls in flight at the same time.
SessionIds == {1, 2, 3}
OpIds == {1, 2}
ProcIds == 1..MaxProcs

\* Adapters registered with the manager.  claude-code prepares a session
\* without I/O (lazy); gemini-cli runs the CLI once in spawn (eager).
\* github-copilot is lazy too; it differs in terminate, interrupt and in how
\* its send reports a failed run.
AdapterNames == {"claude-code", "gemini-cli", "github-copilot"}
LazyAdapters == {"claude-code", "github-copilot"}
ThrowingAdapters == {"github-copilot"}
UnknownAdapter == "not-registered"

VARIABLES
  now,              \* Date.now(), in ticks
  sessions,         \* SessionManager.sessions: id -> record / NoSession
  sessOrder,        \* insertion order of the keys of SessionManager.sessions
  adSessions,       \* adapter.sessions: adapter -> set of ids
  activeProcesses,  \* adapter.activeProcesses: adapter -> id -> process / 0
  procs,            \* child processes
  nextProc,         \* next unused process number
  grace,            \* processes with a pending "force kill" timer
  ops,              \* API calls in flight
  sweep,            \* the periodic _cleanupStaleSessions run
  down,             \* shutdown(): _isShuttingDown, its progress, the keys it
                    \* found and those whose adapter.terminate throws
  ret,              \* what the last step returned to its caller and the
                    \* signals it emitted, as <<name, id>>
  run               \* an adapter seen from inside: one send with the child's
                    \* output, the runner's locals and the events yielded, or
                    \* one session record with the sends in flight on it

regVars == <<now, sessions, sessOrder, adSessions, activeProcesses, procs,
             nextProc, grace, ops, sweep, down, ret>>

vars == <<regVars, run>>

\* ----------------------------------------------------------------- values
NoSession == [adapterName |-> "-", lastActivity |-> 0, status |-> "none",
              messageCount |-> 0]

\* left tells that the consumer of the sendStream that spawned the process
\* stopped iterating while the process ran.
NoProc == [state |-> "none", sid |-> 0, adapter |-> "-", killed |-> FALSE,
           timedOut |-> FALSE, left |-> FALSE, sigs |-> {}]

\* lastActivity of every key of a registry ss, -1 for a key it does not hold.
Activity(ss) ==
  [s \in SessionIds |-> IF ss[s] = NoSession THEN -1 ELSE ss[s].lastActivity]

NoPre == [s \in SessionIds |-> -1]

\* A call in flight.  type, pc, sid, adapter, proc, victim, found and prev are
\* the call's arguments and local variables; detached tells that the record
\* the call holds is no longer the registry's; the other fields are history:
\* alone (no other operation overlapped the call so far), clash (a
\* createSession given the same id overlapped it), atCap (the size check
\* found the registry full), full (the registry was full when the call was
\* made), pre (the keys and their lastActivity that the size check found),
\* outcome and events (how the child process ended, what was yielded),
\* removed (the call's own Map.delete took the victim's record out),
\* interrupted (an interruptSession on the record the call holds reported
\* interrupted: true while the call was in flight).
IdleOp == [type |-> "idle", pc |-> "-", sid |-> 0, adapter |-> "-",
           proc |-> 0, victim |-> 0, detached |-> FALSE, alone |-> FALSE,
           clash |-> FALSE, outcome |-> "-", prev |-> "-", found |-> FALSE,
           removed |-> FALSE, interrupted |-> FALSE,
           atCap |-> FALSE, full |-> FALSE, pre |-> NoPre, events |-> <<>>]

\* What a step returned: op, sid and val name the call and its result, last
\* is the result of the call on the same session that returned in the step
\* before, info is the object getSessionStatus returned, sig are the signals
\* emitted; the other fields are the call's.
NoStatus == [status |-> "-", lastActivity |-> 0, messageCount |-> 0,
             adapterName |-> "-", hasActiveProcess |-> FALSE, idleMs |-> 0]

NoRet == [op |-> "-", sid |-> 0, val |-> "-", last |-> "-", alone |-> FALSE,
          info |-> NoStatus,
          clash |-> FALSE, atCap |-> FALSE, full |-> FALSE, victim |-> 0,
          pre |-> NoPre, prev |-> "-",
          adapter |-> "-", outcome |-> "-", events |-> <<>>, sig |-> {}]

\* A step that returns nothing and emits the signals E.
Emit(E) == [NoRet EXCEPT !.sig = E]

\* The sweep: its position, the stale keys left, whether its terminateSession
\* found the first of them, and whether its Map.delete took the record out.
NoSweep ==
  [pc |-> "-", list |-> <<>>, found |-> FALSE, removed |-> FALSE]

Registered == {s \in SessionIds : sessions[s] # NoSession}

\* pcs at which an operation waits for nothing but the microtask queue
HopPcs == {"evict1", "evict2", "spawn", "set", "del", "fin", "intr"}

HopPending ==
  \/ \E o \in OpIds : ops[o].pc \in HopPcs
  \/ sweep.pc # "-"
  \/ down.state \in {"terminating", "cleanup"}

\* ------------------------------------------------------------ child process
\* subprocess.kill(signal): delivers the signal and sets proc.killed when the
\* process still has its handle; returns false and changes nothing otherwise.
Kill(pr, p, sig) ==
  IF pr[p].state = "running"
  THEN [pr EXCEPT ![p].killed = TRUE, ![p].sigs = @ \cup {sig}]
  ELSE pr

\* The adapter-side state one adapter call reads and writes.
World == [ad |-> adSessions, ap |-> activeProcesses, pr |-> procs, gr |-> grace]

SetWorld(w) ==
  /\ adSessions' = w.ad
  /\ activeProcesses' = w.ap
  /\ procs' = w.pr
  /\ grace' = w.gr

\* adapter.terminate(sessionId).  claude-code, gemini-cli and the other
\* adapters under adapters/: SIGTERM to the tracked process unless
\* proc.killed, a timer for the force kill, then both map entries are
\* deleted.  github-copilot: SIGTERM to the tracked process, no timer.
AdTerminateKeep(w, a, s) == w

AdTerminate(w, a, s) ==
  IF s \notin w.ad[a] THEN w
  ELSE LET p == w.ap[a][s]
           sig == p # 0 /\ (a \in ThrowingAdapters \/ ~w.pr[p].killed)
       IN [ad |-> [w.ad EXCEPT ![a] = @ \ {s}],
           ap |-> [w.ap EXCEPT ![a][s] = 0],
           pr |-> IF sig THEN Kill(w.pr, p, "SIGTERM") ELSE w.pr,
           gr |-> IF sig /\ a \notin ThrowingAdapters
                  THEN w.gr \cup {p} ELSE w.gr]

\* ---------------------------------------------------------------- registry
\* Map.delete(s) on SessionManager.sessions
SeqRemove(q, s) == SelectSeq(q, LAMBDA x : x # s)
KeepRec(ss, s) == ss

DeleteRec(ss, s) == [ss EXCEPT ![s] = NoSession]

\* An operation that took the record of s out of the map before an await
\* keeps that object; once the map entry is deleted or replaced its later
\* writes no longer reach the registry.
Detach(opsf, s) ==
  [o \in OpIds |->
     IF opsf[o].type \in {"send", "stream", "interrupt"} /\ opsf[o].sid = s
     THEN [opsf[o] EXCEPT !.detached = TRUE] ELSE opsf[o]]

\* Bookkeeping for "no other operation ran meanwhile": an operation acting on
\* the sessions S overlaps every operation in flight on one of them, and every
\* createSession in flight.
TouchOps(opsf, S) ==
  [o \in OpIds |->
     IF opsf[o].type # "idle"
        /\ (opsf[o].type = "create" \/ opsf[o].sid \in S \/ opsf[o].victim \in S)
     THEN [opsf[o] EXCEPT !.alone = FALSE] ELSE opsf[o]]

\* Bookkeeping for "a createSession given the id overlapped the call".
Clash(opsf, id) ==
  [o \in OpIds |->
     IF opsf[o].type = "terminate" /\ opsf[o].sid = id
     THEN [opsf[o] EXCEPT !.clash = TRUE] ELSE opsf[o]]

Quiet(o, S) ==
  /\ \A q \in OpIds \ {o} :
        ops[q].type = "idle"
        \/ (ops[q].type # "create" /\ ops[q].sid \notin S
            /\ ops[q].victim \notin S)
  /\ sweep.pc = "-"
  /\ down.state \notin {"terminating", "cleanup"}

NothingInFlight ==
  /\ \A o \in OpIds : ops[o].type = "idle"
  /\ sweep.pc = "-"
  /\ down.state \notin {"terminating", "cleanup"}

\* The lowest free slot of the table of calls in flight.
FreeSlot(o) ==
  /\ ops[o].type = "idle"
  /\ \A q \in OpIds : q < o => ops[q].type # "idle"

Return(op, s, v) == [NoRet EXCEPT !.op = op, !.sid = s, !.val = v]

\* The return of the operation in slot record r, with what it found on its way.
ReturnOf(r, v) ==
  [NoRet EXCEPT !.op = r.type, !.sid = r.sid, !.val = v, !.alone = r.alone,
                !.clash = r.clash, !.full = r.full, !.atCap = r.atCap, !.victim = r.victim, !.pre = r.pre,
                !.adapter = r.adapter, !.outcome = r.outcome,
                !.prev = r.prev, !.events = r.events]

Sig(r, E) == [r EXCEPT !.sig = E]

\* _cleanupOldestSession: the first key, in Map order, with the smallest
\* lastActivity (the loop replaces its candidate only on a strict "<").
RECURSIVE OldestFrom(_, _, _)
OldestFrom(q, best, bestTime) ==
  IF q = <<>> THEN best
  ELSE IF best = 0 \/ sessions[Head(q)].lastActivity < bestTime
       THEN OldestFrom(Tail(q), Head(q), sessions[Head(q)].lastActivity)
       ELSE OldestFrom(Tail(q), best, bestTime)

Newest == IF sessOrder = <<>> THEN 0 ELSE sessOrder[Len(sessOrder)]

Oldest == OldestFrom(sessOrder, 0, 0)

\* -------------------------------------------------------------------- Init
\* No send is looked at from inside.
NoRun == [pc |-> "none"]

\* The registry after construction.
InitRegistry ==
  /\ now = 0
  /\ sessions = [s \in SessionIds |-> NoSession]
  /\ sessOrder = <<>>
  /\ adSessions = [a \in AdapterNames |-> {}]
  /\ activeProcesses = [a \in AdapterNames |-> [s \in SessionIds |-> 0]]
  /\ procs = [p \in ProcIds |-> NoProc]
  /\ nextProc = 1
  /\ grace = {}
  /\ ops = [o \in OpIds |-> IdleOp]
  /\ sweep = NoSweep
  /\ down = [state |-> "no", list |-> <<>>, failed |-> {}]
  /\ ret = NoRet

Init == InitRegistry /\ run = NoRun

\* Date.now() advances.
Tick ==
  /\ ~HopPending
  /\ now < MaxTime
  /\ now' = now + 1
  /\ ret' = NoRet
  /\ UNCHANGED <<run, sessions, sessOrder, adSessions, activeProcesses, procs,
                 nextProc, grace, ops, sweep, down>>

\* ------------------------------------------------------------ createSession
\* adapter.spawn(sessionId, ...) up to its first await: every adapter throws
\* when it already knows the id; a lazy adapter stores the session at once,
\* gemini-cli first runs the CLI.  A throw rejects createSession.
SpawnStep(o, opsf) ==
  LET a == ops[o].adapter
      id == ops[o].sid
  IN IF id \in adSessions[a]
     THEN /\ ops' = [opsf EXCEPT ![o] = IdleOp]
          /\ ret' = ReturnOf(opsf[o], "spawn failed")
          /\ UNCHANGED adSessions
     ELSE /\ ret' = NoRet
          /\ IF a \in LazyAdapters
             THEN /\ adSessions' = [adSessions EXCEPT ![a] = @ \cup {id}]
                  /\ ops' = [opsf EXCEPT ![o].pc = "set"]
             ELSE /\ ops' = [opsf EXCEPT ![o].pc = "init"]
                  /\ UNCHANGED adSessions

\* createSession up to "await adapter.isAvailable()".
CreateCall(o, a, id) ==
  /\ FreeSlot(o)
  /\ IF a \notin AdapterNames
     THEN /\ ret' = Return("create", id, "not registered")
          /\ UNCHANGED ops
     ELSE /\ ret' = NoRet
          /\ ops' = [Clash(TouchOps(ops, {id}), id) EXCEPT ![o] =
                       [IdleOp EXCEPT !.type = "create", !.pc = "avail",
                                      !.sid = id, !.adapter = a,
                                      !.full = Cardinality(Registered) >= MaxSessions,
                                      !.alone = NothingInFlight]]
  /\ UNCHANGED <<run, now, sessions, sessOrder, adSessions, activeProcesses, procs,
                 nextProc, grace, sweep, down>>

\* createSession after the availability check: the session limit is checked
\* and either _cleanupOldestSession starts terminateSession(oldest), which
\* runs adapter.terminate before its await, or adapter.spawn is called.
CreateProceed(o) ==
  IF Cardinality(Registered) >= MaxSessions
  THEN LET v == Oldest
       IN /\ SetWorld(AdTerminate(World, sessions[v].adapterName, v))
          /\ ops' = [TouchOps(ops, {v}) EXCEPT
                       ![o].pc = "evict1", ![o].victim = v,
                       ![o].atCap = TRUE,
                       ![o].pre = Activity(sessions),
                       ![o].alone = ops[o].alone /\ Quiet(o, {v})]
          /\ ret' = NoRet
  ELSE /\ SpawnStep(o, ops)
       /\ UNCHANGED <<activeProcesses, procs, grace>>

CreateAvailEvicts(o, ok) ==
  /\ ~HopPending
  /\ ops[o].type = "create" /\ ops[o].pc = "avail"
  /\ IF ok
     THEN /\ CreateProceed(o)
          /\ UNCHANGED <<sessions, sessOrder>>
     ELSE /\ sessions' = IF Registered = {} THEN sessions
                         ELSE DeleteRec(sessions, Oldest)
          /\ sessOrder' = SeqRemove(sessOrder, Oldest)
          /\ ops' = [ops EXCEPT ![o] = IdleOp]
          /\ ret' = ReturnOf(ops[o], "not available")
          /\ UNCHANGED <<adSessions, activeProcesses, procs, grace>>
  /\ UNCHANGED <<run, now, nextProc, sweep, down>>

\* The availability probe answers: createSession throws when the adapter's
\* CLI is not available and goes on otherwise.
CreateAvail(o, ok) ==
  /\ ~HopPending
  /\ ops[o].type = "create" /\ ops[o].pc = "avail"
  /\ IF ~ok
     THEN /\ ops' = [ops EXCEPT ![o] = IdleOp]
          /\ ret' = ReturnOf(ops[o], "not available")
          /\ UNCHANGED <<adSessions, activeProcesses, procs, grace>>
     ELSE CreateProceed(o)
  /\ UNCHANGED <<run, now, sessions, sessOrder, nextProc, sweep, down>>

\* terminateSession(oldest) after its await: the record is deleted and
\* 'session:terminated' emitted.
CreateEvict1(o) ==
  /\ ops[o].type = "create" /\ ops[o].pc = "evict1"
  /\ sessions' = DeleteRec(sessions, ops[o].victim)
  /\ sessOrder' = SeqRemove(sessOrder, ops[o].victim)
  /\ ops' = [Detach(ops, ops[o].victim) EXCEPT
               ![o].pc = "evict2",
               ![o].removed = sessions[ops[o].victim] # NoSession]
  /\ ret' = Emit({<<"session:terminated", ops[o].victim>>})
  /\ UNCHANGED <<run, now, adSessions, activeProcesses, procs, nextProc, grace,
                 sweep, down>>

\* _cleanupOldestSession after its await: 'session:evicted' is emitted.
CreateEvict2(o) ==
  /\ ops[o].type = "create" /\ ops[o].pc = "evict2"
  /\ ops' = [ops EXCEPT ![o].pc = "spawn"]
  /\ ret' = Emit({<<"session:evicted", ops[o].victim>>})
  /\ UNCHANGED <<run, now, sessions, sessOrder, adSessions, activeProcesses, procs,
                 nextProc, grace, sweep, down>>

\* createSession after "await this._cleanupOldestSession()": adapter.spawn.
CreateSpawn(o) ==
  /\ ops[o].type = "create" /\ ops[o].pc = "spawn"
  /\ SpawnStep(o, ops)
  /\ UNCHANGED <<run, now, sessions, sessOrder, activeProcesses, procs, nextProc,
                 grace, sweep, down>>

\* gemini-cli: the init run of the CLI ends; on success the adapter stores
\* the session, on failure spawn rejects and so does createSession.
CreateInit(o, ok) ==
  /\ ~HopPending
  /\ ops[o].type = "create" /\ ops[o].pc = "init"
  /\ IF ok
     THEN /\ adSessions' = [adSessions EXCEPT ![ops[o].adapter] = @ \cup {ops[o].sid}]
          /\ ops' = [ops EXCEPT ![o].pc = "set"]
          /\ ret' = NoRet
     ELSE /\ ops' = [ops EXCEPT ![o] = IdleOp]
          /\ ret' = ReturnOf(ops[o], "spawn failed")
          /\ UNCHANGED adSessions
  /\ UNCHANGED <<run, now, sessions, sessOrder, activeProcesses, procs, nextProc,
                 grace, sweep, down>>

\* createSession after "await adapter.spawn": the record is stored.
NewRec(a) == [adapterName |-> a, lastActivity |-> now, status |-> "stable",
              messageCount |-> 0]

CreateSet(o) ==
  /\ ops[o].type = "create" /\ ops[o].pc = "set"
  /\ sessions' = [sessions EXCEPT ![ops[o].sid] = NewRec(ops[o].adapter)]
  /\ sessOrder' = IF ops[o].sid \in Registered THEN sessOrder
                  ELSE Append(sessOrder, ops[o].sid)
  /\ ops' = [Detach(ops, ops[o].sid) EXCEPT ![o] = IdleOp]
  /\ ret' = Sig(ReturnOf(ops[o], "ok"), {<<"session:created", ops[o].sid>>})
  /\ UNCHANGED <<run, now, adSessions, activeProcesses, procs, nextProc, grace,
                 sweep, down>>

\* --------------------------------------------------------- terminateSession
\* terminateSession up to "await adapter.terminate(sessionId)"; an unknown
\* session returns false at once.
TermCall(o, s) ==
  /\ FreeSlot(o)
  /\ IF sessions[s] = NoSession
     THEN /\ ret' = [Return("terminate", s, "false") EXCEPT
                       !.last = IF ret.op = "terminate" /\ ret.sid = s
                                THEN ret.val ELSE "-"]
          /\ UNCHANGED <<ops, adSessions, activeProcesses, procs, grace>>
     ELSE /\ SetWorld(AdTerminate(World, sessions[s].adapterName, s))
          /\ ops' = [TouchOps(ops, {s}) EXCEPT ![o] =
                       [IdleOp EXCEPT !.type = "terminate", !.pc = "del",
                                      !.sid = s,
                                      !.adapter = sessions[s].adapterName,
                                      !.clash = \E q \in OpIds :
                                                  /\ ops[q].type = "create"
                                                  /\ ops[q].sid = s,
                                      !.alone = Quiet(o, {s})]]
          /\ ret' = NoRet
  /\ UNCHANGED <<run, now, sessions, sessOrder, nextProc, sweep, down>>

\* terminateSession after the await: delete, emit, return true.
TermFinish(o) ==
  /\ ops[o].type = "terminate" /\ ops[o].pc = "del"
  /\ sessions' = DeleteRec(sessions, ops[o].sid)
  /\ sessOrder' = SeqRemove(sessOrder, ops[o].sid)
  /\ ops' = [Detach(ops, ops[o].sid) EXCEPT ![o] = IdleOp]
  /\ ret' = Sig(ReturnOf(ops[o], "true"), {<<"session:terminated", ops[o].sid>>})
  /\ UNCHANGED <<run, now, adSessions, activeProcesses, procs, nextProc, grace,
                 sweep, down>>

\* ------------------------------------------------------- send and sendStream
WriteEvery(ss, o, st) ==
  [s \in SessionIds |->
     IF ss[s] = NoSession THEN ss[s]
     ELSE [ss[s] EXCEPT !.status = st, !.lastActivity = now]]

WriteRecByKey(ss, o, st) ==
  [ss EXCEPT ![ops[o].sid] =
     [NewRec(ops[o].adapter) EXCEPT !.status = st, !.lastActivity = now]]

\* A write to the record an operation got from the map; it reaches the
\* registry only while that object is still the map's entry.
WriteRec(ss, o, st) ==
  IF ops[o].detached THEN ss
  ELSE [ss EXCEPT ![ops[o].sid].status = st,
                  ![ops[o].sid].lastActivity = now]

StartedUncounted(rec) ==
  [rec EXCEPT !.lastActivity = now, !.status = "running"]

\* The record after send and sendStream have updated the activity timestamp,
\* the status and the counter.
Started(rec) ==
  [rec EXCEPT !.lastActivity = now, !.status = "running",
              !.messageCount = @ + 1]

\* SessionManager.send / sendStream up to the first await inside the adapter:
\* the lookup, the status and counter update, then adapter.send, which throws
\* for a session the adapter does not know and otherwise spawns the CLI and
\* stores the process in activeProcesses under the session id.
SendCall(o, s, kind) ==
  /\ FreeSlot(o)
  /\ IF sessions[s] = NoSession
     THEN /\ ret' = Return(kind, s, "not found")
          /\ UNCHANGED <<sessions, ops, activeProcesses, procs, nextProc>>
     ELSE LET a == sessions[s].adapterName
              base == [IdleOp EXCEPT !.type = kind, !.sid = s, !.adapter = a,
                                     !.alone = Quiet(o, {s})]
          IN /\ sessions[s].messageCount < MaxMsgs
             /\ sessions' = [sessions EXCEPT ![s] = Started(@)]
             /\ ret' = NoRet
             /\ IF s \notin adSessions[a]
                THEN /\ ops' = [TouchOps(ops, {s}) EXCEPT ![o] =
                                  [base EXCEPT !.pc = "fin", !.outcome = "throw"]]
                     /\ UNCHANGED <<activeProcesses, procs, nextProc>>
                ELSE /\ nextProc <= MaxProcs
                     /\ procs' = [procs EXCEPT ![nextProc] =
                                    [NoProc EXCEPT !.state = "running",
                                                   !.sid = s, !.adapter = a]]
                     /\ activeProcesses' = [activeProcesses EXCEPT ![a][s] = nextProc]
                     /\ nextProc' = nextProc + 1
                     /\ ops' = [TouchOps(ops, {s}) EXCEPT ![o] =
                                  [base EXCEPT !.pc = "wait", !.proc = nextProc]]
  /\ UNCHANGED <<run, now, sessOrder, adSessions, grace, sweep, down>>

\* A chunk of the child's standard output arrives and the adapter yields a
\* progress event for it.
StdoutChunk(o) ==
  /\ ~HopPending
  /\ ops[o].pc = "wait"
  /\ Len(ops[o].events) < MaxChunks
  /\ ops' = [ops EXCEPT ![o].events = Append(@, "progress")]
  /\ ret' = NoRet
  /\ UNCHANGED <<run, now, sessions, sessOrder, adSessions, activeProcesses, procs,
                 nextProc, grace, sweep, down>>

\* The consumer of a sendStream leaves its "for await" loop at a chunk: the
\* runtime calls return() on the manager's generator, which is suspended at
\* "yield chunk", and on the adapter's generators below it.  No catch block
\* runs and the statements after the loop are skipped; the child process,
\* its callbacks and its timeout timer stay.
StreamAbandon(o) ==
  /\ ops[o].type = "stream" /\ ops[o].pc = "wait"
  /\ ops[o].events # <<>>
  /\ procs' = [procs EXCEPT ![ops[o].proc].left = TRUE]
  /\ ops' = [ops EXCEPT ![o] = IdleOp]
  /\ ret' = ReturnOf(ops[o], "abandoned")
  /\ UNCHANGED <<run, now, sessions, sessOrder, adSessions, activeProcesses,
                 nextProc, grace, sweep, down>>

\* The child's 'close' callback: the timeout is cleared, the entry under the
\* session id is deleted from activeProcesses, and the send that waits for
\* this process goes on to its last segment.
CloseEntryKept(ap, a, s) == ap

CloseEntry(ap, a, s) == [ap EXCEPT ![a][s] = 0]

RunOutcome(p, code) ==
  IF procs[p].timedOut THEN "timeout"
  ELSE IF code # 0 THEN "error" ELSE "ok"

ProcExit(p, code) ==
  /\ ~HopPending
  /\ procs[p].state = "running"
  /\ procs' = [procs EXCEPT ![p] = [NoProc EXCEPT !.state = "exited",
                                                  !.killed = procs[p].killed]]
  /\ activeProcesses' = CloseEntry(activeProcesses, procs[p].adapter, procs[p].sid)
  /\ ops' = [o \in OpIds |->
               IF ops[o].pc = "wait" /\ ops[o].proc = p
               THEN [ops[o] EXCEPT !.pc = "fin", !.outcome = RunOutcome(p, code)]
               ELSE ops[o]]
  /\ ret' = IF procs[p].left THEN Return("close", procs[p].sid, "abandoned")
             ELSE NoRet
  /\ UNCHANGED <<run, now, sessions, sessOrder, adSessions, nextProc, grace, sweep,
                 down>>

\* The send's timeout timer: SIGTERM, and a timer for the force kill.
TimeoutFire(p) ==
  /\ ~HopPending
  /\ procs[p].state = "running"
  /\ ~procs[p].timedOut
  /\ procs' = Kill([procs EXCEPT ![p].timedOut = TRUE], p, "SIGTERM")
  /\ grace' = grace \cup {p}
  /\ ret' = NoRet
  /\ UNCHANGED <<run, now, sessions, sessOrder, adSessions, activeProcesses,
                 nextProc, ops, sweep, down>>

\* The force-kill timer set by the timeout and by adapter.terminate:
\* "if (!proc.killed) proc.kill('SIGKILL')".
GraceFire(p) ==
  /\ ~HopPending
  /\ p \in grace
  /\ grace' = grace \ {p}
  /\ procs' = IF ~procs[p].killed THEN Kill(procs, p, "SIGKILL") ELSE procs
  /\ ret' = NoRet
  /\ UNCHANGED <<run, now, sessions, sessOrder, adSessions, activeProcesses,
                 nextProc, ops, sweep, down>>

\* What the adapter's send yields last.  Every adapter but github-copilot
\* turns a timeout, a process error or a non-zero exit code into one error
\* event and ends; github-copilot throws instead.
Throws(a, outcome) ==
  outcome = "throw" \/ (a \in ThrowingAdapters /\ outcome # "ok")

FinalEvents(a, outcome) ==
  IF Throws(a, outcome) THEN <<>>
  ELSE IF outcome = "ok" THEN <<"result">>
  ELSE IF outcome = "timeout" THEN <<"error:timeout">>
  ELSE <<"error">>

\* sendAndWait throws on an error event, so send rejects; sendStream passes
\* the adapter's events on and ends normally unless the adapter's generator
\* itself throws.  The manager stores 'error' in its catch block and
\* 'stable' otherwise.
Rejects(kind, a, outcome) ==
  Throws(a, outcome) \/ (kind = "send" /\ outcome # "ok")

SendStatusLeft(kind, a, outcome) == "running"

SendStatus(kind, a, outcome) ==
  IF Rejects(kind, a, outcome) THEN "error" ELSE "stable"

SendFinish(o) ==
  /\ ops[o].type \in {"send", "stream"} /\ ops[o].pc = "fin"
  /\ LET st == SendStatus(ops[o].type, ops[o].adapter, ops[o].outcome)
         rej == Rejects(ops[o].type, ops[o].adapter, ops[o].outcome)
         ev == ops[o].events \o FinalEvents(ops[o].adapter, ops[o].outcome)
     IN /\ sessions' = WriteRec(sessions, o, st)
        /\ ret' = [ReturnOf(ops[o], IF rej THEN "rejected" ELSE "resolved")
                     EXCEPT !.events = ev,
                            !.sig = IF ops[o].type = "send" /\ ~rej
                                    THEN {<<"session:message", ops[o].sid>>}
                                    ELSE {}]
  /\ ops' = [ops EXCEPT ![o] = IdleOp]
  /\ UNCHANGED <<run, now, sessOrder, adSessions, activeProcesses, procs, nextProc,
                 grace, sweep, down>>

\* ---------------------------------------------------------- interruptSession
\* adapter.interrupt(sessionId): the base adapter sends SIGINT to the tracked
\* process unless proc.killed and answers whether it did; github-copilot
\* sends SIGINT to the tracked process and always answers with an object.
AdInterruptKills(a, p) ==
  p # 0 /\ (a \in ThrowingAdapters \/ ~procs[p].killed)

AdInterruptAnswer(a, p) ==
  a \in ThrowingAdapters \/ AdInterruptKills(a, p)

\* interruptSession up to "await adapter.interrupt(sessionId)".
InterruptCall(o, s) ==
  /\ FreeSlot(o)
  /\ IF sessions[s] = NoSession
     THEN /\ ret' = Return("interrupt", s, "session_not_found")
          /\ UNCHANGED <<ops, procs>>
     ELSE LET a == sessions[s].adapterName
              p == activeProcesses[a][s]
          IN /\ procs' = IF AdInterruptKills(a, p)
                         THEN Kill(procs, p, "SIGINT") ELSE procs
             /\ ops' = [TouchOps(ops, {s}) EXCEPT ![o] =
                          [IdleOp EXCEPT !.type = "interrupt", !.pc = "intr",
                                         !.sid = s, !.adapter = a,
                                         !.proc = p,
                                         !.found = AdInterruptAnswer(a, p),
                                         !.prev = sessions[s].status,
                                         !.alone = Quiet(o, {s})]]
             /\ ret' = NoRet
  /\ UNCHANGED <<run, now, sessions, sessOrder, adSessions, activeProcesses,
                 nextProc, grace, sweep, down>>

\* Bookkeeping for "the send was interrupted": the sends in flight that hold
\* the record the interruptSession in slot o holds.
MarkInterrupted(opsf, o) ==
  [q \in OpIds |->
     IF /\ opsf[q].type \in {"send", "stream"} /\ opsf[q].sid = opsf[o].sid
        /\ ~opsf[q].detached /\ ~opsf[o].detached
     THEN [opsf[q] EXCEPT !.interrupted = TRUE] ELSE opsf[q]]

\* interruptSession after the await, with the fallback that looks into
\* activeProcesses itself.
InterruptFinish(o) ==
  /\ ops[o].type = "interrupt" /\ ops[o].pc = "intr"
  /\ LET p == activeProcesses[ops[o].adapter][ops[o].sid]
         fallback == ~ops[o].found /\ p # 0 /\ ~procs[p].killed
         done == ops[o].found \/ fallback
     IN /\ procs' = IF fallback THEN Kill(procs, p, "SIGINT") ELSE procs
        /\ sessions' = IF done THEN WriteRec(sessions, o, "stable") ELSE sessions
        /\ ops' = [(IF done THEN MarkInterrupted(ops, o) ELSE ops)
                     EXCEPT ![o] = IdleOp]
        /\ ret' = Sig(ReturnOf(ops[o], IF done THEN "interrupted"
                                        ELSE "no_active_process"),
                      IF done THEN {<<"session:interrupted", ops[o].sid>>} ELSE {})
  /\ UNCHANGED <<run, now, sessOrder, adSessions, activeProcesses, nextProc, grace,
                 sweep, down>>

\* ------------------------------------------------------ the periodic sweep
\* The keys, in Map order, whose idle time exceeds sessionTimeout.
StaleReversed ==
  SelectSeq(sessOrder,
            LAMBDA s : sessions[s].lastActivity - now > SessionTimeout)

Stale == SelectSeq(sessOrder,
                   LAMBDA s : now - sessions[s].lastActivity > SessionTimeout)

SeqToSet(q) == {q[i] : i \in 1..Len(q)}

\* terminateSession(s) up to its await, as called by the sweep: nothing for
\* a session that is gone.
TermPrefix(w, s) ==
  IF sessions[s] = NoSession THEN w
  ELSE AdTerminate(w, sessions[s].adapterName, s)

\* The interval callback: _cleanupStaleSessions collects the stale keys and
\* starts terminateSession on the first.  clearInterval in shutdown stops it.
SweepStart ==
  /\ ~HopPending
  /\ down.state = "no"
  /\ IF Stale = <<>>
     THEN /\ ret' = Return("sweep", 0, "0")
          /\ UNCHANGED <<sweep, ops, adSessions, activeProcesses, procs, grace>>
     ELSE /\ ret' = NoRet
          /\ sweep' = [pc |-> "term", list |-> Stale, found |-> TRUE,
                       removed |-> FALSE]
          /\ ops' = TouchOps(ops, SeqToSet(Stale))
          /\ SetWorld(TermPrefix(World, Head(Stale)))
  /\ UNCHANGED <<run, now, sessions, sessOrder, nextProc, down>>

\* terminateSession of the sweep after its await.
SweepTerm ==
  /\ sweep.pc = "term"
  /\ LET s == Head(sweep.list)
     IN IF sweep.found
        THEN /\ sessions' = DeleteRec(sessions, s)
             /\ sessOrder' = SeqRemove(sessOrder, s)
             /\ ops' = Detach(ops, s)
             /\ ret' = Emit({<<"session:terminated", s>>})
        ELSE /\ ret' = NoRet
             /\ UNCHANGED <<sessions, sessOrder, ops>>
  /\ sweep' = [sweep EXCEPT !.pc = "emit",
                            !.removed = sweep.found
                                          /\ sessions[Head(sweep.list)] # NoSession]
  /\ UNCHANGED <<run, now, adSessions, activeProcesses, procs, nextProc, grace, down>>

\* The sweep emits 'session:timeout' and turns to the next stale key.
SweepEmit ==
  /\ sweep.pc = "emit"
  /\ LET rest == Tail(sweep.list)
         E == {<<"session:timeout", Head(sweep.list)>>}
     IN IF rest = <<>>
        THEN /\ sweep' = NoSweep
             /\ ret' = Sig(Return("sweep", 0, "done"), E)
             /\ UNCHANGED <<adSessions, activeProcesses, procs, grace>>
        ELSE /\ sweep' = [pc |-> "term", list |-> rest,
                          found |-> sessions[Head(rest)] # NoSession,
                          removed |-> FALSE]
             /\ ret' = Emit(E)
             /\ SetWorld(TermPrefix(World, Head(rest)))
  /\ UNCHANGED <<run, now, sessions, sessOrder, nextProc, ops, down>>

\* ------------------------------------------------------------------ shutdown
\* Adapters that do not define getActiveSessions (github-copilot): the
\* inherited cleanup() calls the base method, which throws.
NoCleanup == {"github-copilot"}

\* terminateSession(s) up to its await when adapter.terminate throws for the
\* sessions F (proc.kill or a 'terminated' listener throws): the adapter's
\* maps keep the entry and terminateSession rejects before it deletes.
TermPrefixF(w, s, F) == IF s \in F THEN w ELSE TermPrefix(w, s)

RECURSIVE TermPrefixAll(_, _, _)
TermPrefixAll(w, q, F) ==
  IF q = <<>> THEN w
  ELSE TermPrefixAll(TermPrefixF(w, Head(q), F), Tail(q), F)

RECURSIVE DeleteAll(_, _)
DeleteAll(ss, q) ==
  IF q = <<>> THEN ss ELSE DeleteAll(DeleteRec(ss, Head(q)), Tail(q))

RECURSIVE DetachAll(_, _)
DetachAll(opsf, q) ==
  IF q = <<>> THEN opsf ELSE DetachAll(Detach(opsf, Head(q)), Tail(q))

\* adapter.cleanup(): terminate is started for every session the adapter
\* still knows; one that throws rejects the Promise.all after the others ran.
RECURSIVE AdCleanup(_, _, _, _)
AdCleanup(w, a, S, F) ==
  IF S = {} THEN w
  ELSE LET s == CHOOSE x \in S : TRUE
       IN AdCleanup(IF s \in F THEN w ELSE AdTerminate(w, a, s), a, S \ {s}, F)

\* The loop over the adapters in shutdown; a cleanup that throws is logged.
RECURSIVE CleanupAll(_, _, _)
CleanupAll(w, A, F) ==
  IF A = {} THEN w
  ELSE LET a == CHOOSE x \in A : TRUE
       IN CleanupAll(IF a \in NoCleanup THEN w ELSE AdCleanup(w, a, w.ad[a], F),
                     A \ {a}, F)

\* The keys of q for which terminateSession gets past its await.
PassedNone(q, F) == <<>>

Passed(q, F) == SelectSeq(q, LAMBDA s : s \notin F)

\* shutdown up to the await of Promise.all: the flag, clearInterval, and
\* terminateSession started on every key.  A second call returns at once.
ShutdownCall(F) ==
  /\ IF down.state # "no"
     THEN /\ ret' = Return("shutdown", 0, "already")
          /\ UNCHANGED <<down, ops, adSessions, activeProcesses, procs, grace>>
     ELSE /\ ret' = NoRet
          /\ down' = [state |-> "terminating", list |-> sessOrder,
                      failed |-> F \cap Registered]
          /\ ops' = TouchOps(ops, Registered)
          /\ SetWorld(TermPrefixAll(World, sessOrder, F))
  /\ UNCHANGED <<run, now, sessions, sessOrder, nextProc, sweep>>

\* Every terminateSession of the Promise.all after its await; the rejected
\* ones were caught and logged.
ShutdownDelete ==
  /\ down.state = "terminating"
  /\ LET gone == Passed(down.list, down.failed)
     IN /\ sessions' = DeleteAll(sessions, gone)
        /\ sessOrder' = SelectSeq(sessOrder, LAMBDA s : s \notin SeqToSet(gone))
        /\ ops' = DetachAll(ops, gone)
        /\ ret' = Emit({<<"session:terminated", s>> : s \in SeqToSet(gone)})
  /\ down' = [down EXCEPT !.state = "cleanup"]
  /\ UNCHANGED <<run, now, adSessions, activeProcesses, procs, nextProc, grace, sweep>>

\* adapter.cleanup() of every registered adapter, then 'shutdown'.
ShutdownCleanup ==
  /\ down.state = "cleanup"
  /\ SetWorld(CleanupAll(World, AdapterNames, down.failed))
  /\ down' = [state |-> "done", list |-> <<>>, failed |-> down.failed]
  /\ ret' = Sig(Return("shutdown", 0, "done"), {<<"shutdown", 0>>})
  /\ UNCHANGED <<run, now, sessions, sessOrder, nextProc, ops, sweep>>

\* killAllProcesses of an adapter: SIGKILL to every tracked process unless
\* proc.killed, then the map is cleared.
RECURSIVE KillTracked(_, _)
KillTracked(pr, P) ==
  IF P = {} THEN pr
  ELSE LET p == CHOOSE x \in P : TRUE
       IN KillTracked(IF pr[p].killed THEN pr ELSE Kill(pr, p, "SIGKILL"),
                      P \ {p})

KillAll(w) ==
  LET A == AdapterNames \ NoCleanup
      P == {w.ap[a][s] : a \in A, s \in SessionIds} \ {0}
  IN [w EXCEPT !.pr = KillTracked(w.pr, P),
               !.ap = [a \in AdapterNames |->
                         IF a \in A THEN [s \in SessionIds |-> 0] ELSE w.ap[a]]]

\* AgentServer.stop: killAllProcesses on every adapter that defines it, then
\* shutdown() up to its await.
ServerStop ==
  /\ down.state = "no"
  /\ ret' = NoRet
  /\ down' = [state |-> "terminating", list |-> sessOrder, failed |-> {}]
  /\ ops' = TouchOps(ops, Registered)
  /\ SetWorld(TermPrefixAll(KillAll(World), sessOrder, {}))
  /\ UNCHANGED <<run, now, sessions, sessOrder, nextProc, sweep>>

\* ---------------------------------------------------------------------- Next
\* The steps of each operation, for callers that use the ids I, the adapters
\* A and the kinds of send K.
CreateSteps(I, A) ==
  \/ \E o \in OpIds, a \in A, id \in I : CreateCall(o, a, id)
  \/ \E o \in OpIds, ok \in BOOLEAN : CreateAvail(o, ok)
  \/ \E o \in OpIds : CreateEvict1(o)
  \/ \E o \in OpIds : CreateEvict2(o)
  \/ \E o \in OpIds : CreateSpawn(o)
  \/ \E o \in OpIds : CreateSet(o)

EagerSteps == \E o \in OpIds, ok \in BOOLEAN : CreateInit(o, ok)

TermSteps(I) ==
  \/ \E o \in OpIds, s \in I : TermCall(o, s)
  \/ \E o \in OpIds : TermFinish(o)

SendSteps(I, K) ==
  \/ \E o \in OpIds, s \in I, kind \in K : SendCall(o, s, kind)
  \/ \E p \in ProcIds, code \in {0, 1} : ProcExit(p, code)
  \/ \E o \in OpIds : SendFinish(o)

TimerSteps ==
  \/ \E p \in ProcIds : TimeoutFire(p)
  \/ \E p \in ProcIds : GraceFire(p)

InterruptSteps(I) ==
  \/ \E o \in OpIds, s \in I : InterruptCall(o, s)
  \/ \E o \in OpIds : InterruptFinish(o)

SweepSteps == SweepStart \/ SweepTerm \/ SweepEmit

ShutdownSteps(FS) ==
  \/ \E F \in FS : ShutdownCall(F)
  \/ ShutdownDelete
  \/ ShutdownCleanup

\* The registry under concurrent API calls: createSession, send, sendStream
\* and terminateSession on two ids with a lazy adapter.
CoreIds == {1, 2}
CoreAdapters == {"claude-code", UnknownAdapter}

Next ==
  \/ CreateSteps(CoreIds, CoreAdapters)
  \/ TermSteps(CoreIds)
  \/ SendSteps(CoreIds, {"send", "stream"})

Spec == Init /\ [][Next]_vars

\* The session limit: createSession calls on three ids with the eager adapter
\* while the clock advances.
CapIds == {1, 2, 3}
CapAdapters == {"gemini-cli"}

NextCap ==
  \/ CreateSteps(CapIds, CapAdapters)
  \/ EagerSteps
  \/ Tick

SpecCap == Init /\ [][NextCap]_vars

\* The idle sweep: createSession calls on two ids with a lazy adapter, the
\* clock, the interval callback and shutdown.
SweepIds == {1, 2}

NextSweep ==
  \/ CreateSteps(SweepIds, {"claude-code"})
  \/ Tick
  \/ SweepSteps
  \/ ShutdownSteps({{}})

\* Every continuation that waits for nothing but the microtask queue runs.
HopsFair ==
  /\ \A o \in OpIds :
       /\ WF_vars(CreateEvict1(o)) /\ WF_vars(CreateEvict2(o))
       /\ WF_vars(CreateSpawn(o)) /\ WF_vars(CreateSet(o))
       /\ WF_vars(TermFinish(o)) /\ WF_vars(SendFinish(o))
       /\ WF_vars(InterruptFinish(o))
  /\ WF_vars(SweepTerm) /\ WF_vars(SweepEmit)
  /\ WF_vars(ShutdownDelete) /\ WF_vars(ShutdownCleanup)

\* setInterval keeps calling _cleanupStaleSessions until clearInterval; the
\* callback runs whenever no microtask is pending.
SpecSweep == Init /\ [][NextSweep]_vars /\ HopsFair /\ SF_vars(SweepStart)

\* The process runner: one session id, an adapter that reports failures as
\* error events and one that throws, output chunks, the timeout and the
\* force-kill timer, interruptSession and terminateSession.
RunIds == {1}
RunAdapters == {"claude-code", "github-copilot"}

NextRun ==
  \/ \E o \in OpIds, a \in RunAdapters, id \in RunIds : CreateCall(o, a, id)
  \/ \E o \in OpIds, ok \in BOOLEAN : CreateAvail(o, ok)
  \/ \E o \in OpIds : CreateSet(o)
  \/ TermSteps(RunIds)
  \/ SendSteps(RunIds, {"send", "stream"})
  \/ \E o \in OpIds : StdoutChunk(o)
  \/ TimerSteps
  \/ InterruptSteps(RunIds)

SpecRun == Init /\ [][NextRun]_vars

\* The timers fire when they are due, and the operating system ends a
\* process that was sent SIGKILL.  Nothing makes a process exit on its own
\* or on SIGTERM or SIGINT.
KilledExit(p) == "SIGKILL" \in procs[p].sigs /\ ProcExit(p, 1)

NextRunFair ==
  \/ \E o \in OpIds, a \in RunAdapters, id \in RunIds : CreateCall(o, a, id)
  \/ \E o \in OpIds, ok \in BOOLEAN : CreateAvail(o, ok)
  \/ \E o \in OpIds : CreateSet(o)
  \/ TermSteps(RunIds)
  \/ SendSteps(RunIds, {"send", "stream"})
  \/ TimerSteps

SpecRunFair ==
  /\ Init /\ [][NextRunFair]_vars
  /\ HopsFair
  /\ \A p \in ProcIds :
       SF_vars(TimeoutFire(p)) /\ SF_vars(GraceFire(p)) /\ SF_vars(KilledExit(p))

\* Streaming: sendStream and send on one session of a lazy adapter, output
\* chunks, a consumer that may stop iterating, the timeout and the force-kill
\* timer, and terminateSession.
StreamAdapters == {"claude-code", "github-copilot"}

StreamSteps ==
  \/ \E o \in OpIds : StdoutChunk(o)
  \/ \E o \in OpIds : StreamAbandon(o)

NextStream ==
  \/ \E o \in OpIds, a \in StreamAdapters, id \in RunIds : CreateCall(o, a, id)
  \/ \E o \in OpIds, ok \in BOOLEAN : CreateAvail(o, ok)
  \/ \E o \in OpIds : CreateSet(o)
  \/ TermSteps(RunIds)
  \/ SendSteps(RunIds, {"send", "stream"})
  \/ StreamSteps
  \/ TimerSteps

SpecStream == Init /\ [][NextStream]_vars

\* Shutdown: a session of an adapter that has cleanup and a session of one
\* whose cleanup throws, send on both, and shutdown during which
\* adapter.terminate may throw for one session.
DownIds == {1, 2}
DownAdapter == [s \in DownIds |-> IF s = 1 THEN "claude-code" ELSE "github-copilot"]
DownFails == {{}, {1}}

NextDown ==
  \/ \E o \in OpIds, id \in DownIds : CreateCall(o, DownAdapter[id], id)
  \/ \E o \in OpIds, ok \in BOOLEAN : CreateAvail(o, ok)
  \/ \E o \in OpIds : CreateEvict1(o)
  \/ \E o \in OpIds : CreateEvict2(o)
  \/ \E o \in OpIds : CreateSpawn(o)
  \/ \E o \in OpIds : CreateSet(o)
  \/ SendSteps(DownIds, {"send"})
  \/ ShutdownSteps(DownFails)

SpecDown == Init /\ [][NextDown]_vars

\* The end of the orchestrator: send on one session of an adapter with
\* killAllProcesses, the timers, shutdown and the server's stop.  The timers
\* fire when due and a process that was sent SIGKILL ends.
NextStop ==
  \/ \E o \in OpIds, id \in RunIds : CreateCall(o, "claude-code", id)
  \/ \E o \in OpIds, ok \in BOOLEAN : CreateAvail(o, ok)
  \/ \E o \in OpIds : CreateSet(o)
  \/ SendSteps(RunIds, {"send"})
  \/ TimerSteps
  \/ ShutdownSteps({{}})
  \/ ServerStop

SpecStop ==
  /\ Init /\ [][NextStop]_vars
  /\ HopsFair
  /\ \A p \in ProcIds :
       SF_vars(TimeoutFire(p)) /\ SF_vars(GraceFire(p)) /\ SF_vars(KilledExit(p))

\* Two sessions side by side: send, sendStream, interruptSession and
\* terminateSession on two ids of one adapter.
FrameIds == {1, 2}

NextFrame ==
  \/ CreateSteps(FrameIds, {"claude-code"})
  \/ TermSteps(FrameIds)
  \/ SendSteps(FrameIds, {"send", "stream"})
  \/ InterruptSteps(FrameIds)

SpecFrame == Init /\ [][NextFrame]_vars

\* ------------------------------------------------------------------ claims
Sends == {"send", "stream"}

Running(s) == {p \in ProcIds : procs[p].state = "running" /\ procs[p].sid = s}

\* C1: at any instant at most one child process is running for a session; a
\* send on a session that has a send in flight spawns no second process.
C1_OneProcessPerSession ==
  \A s \in SessionIds : Cardinality(Running(s)) <= 1

\* C2: with no other operation running on the session, after a send that
\* resolves the session's status is 'stable', and after a send that rejects
\* the status is 'error' and the session is still registered.
C2_StatusAfterSend ==
  (ret.op \in Sends /\ ret.alone) =>
     /\ ret.val = "resolved" => sessions[ret.sid].status = "stable"
     /\ ret.val = "rejected" => /\ ret.sid \in Registered
                                /\ sessions[ret.sid].status = "error"

C2_Witness ==
  /\ ret.op = "send" /\ ret.alone /\ ret.val = "rejected"
  /\ ret.outcome = "error"
  /\ sessions[ret.sid].status = "error"

\* The session is absent from the registry and from the maps of the adapter
\* it was bound to.
Absent(s, a) ==
  /\ s \notin Registered
  /\ s \notin adSessions[a]
  /\ activeProcesses[a][s] = 0

C4_TerminateIdempotent ==
  [][\A s \in SessionIds :
       (/\ ret.op = "terminate" /\ ret.val = "true" /\ ret.sid = s
        /\ \E o \in OpIds : TermCall(o, s))
       => /\ ret'.val = "false" /\ ret'.sig = {}
          /\ UNCHANGED <<now, sessions, sessOrder, adSessions,
                         activeProcesses, procs, nextProc, grace, ops,
                         sweep, down>>]_vars

C4_Witness ==
  ret.op = "terminate" /\ ret.val = "false" /\ ret.last = "true"


\* The keys a size check found, and the least lastActivity among them.
Held(pre) == {s \in SessionIds : pre[s] >= 0}

Least(pre, v) == v \in Held(pre) /\ \A s \in Held(pre) : pre[v] <= pre[s]

C6_AtMostMaxSessions == Cardinality(Registered) <= MaxSessions


\* The session is registered and has been idle for longer than sessionTimeout.
IdleFor(s) ==
  s \in Registered /\ now - sessions[s].lastActivity > SessionTimeout

C8_TimeoutEscalation ==
  /\ [](\A p \in ProcIds :
          "SIGKILL" \in procs[p].sigs => "SIGTERM" \in procs[p].sigs)
  /\ [][\A p \in ProcIds :
          (procs[p].state = "running" /\ ~procs[p].timedOut
           /\ procs'[p].timedOut) => "SIGTERM" \in procs'[p].sigs]_vars
  /\ [][\A p \in ProcIds :
          (/\ procs[p].state = "running" /\ procs[p].timedOut
           /\ p \in grace /\ p \notin grace')
          => "SIGKILL" \in procs'[p].sigs]_vars

\* C9: every send or sendStream that waits for its child process eventually
\* completes, also when the child neither exits on its own nor on SIGTERM.
C9_SendCompletes ==
  \A o \in OpIds : (ops[o].pc = "wait") ~> (ops[o].pc # "wait")

Count(q, x) == Cardinality({i \in 1..Len(q) : q[i] = x})

\* C10: a send during which the timeout fired yields exactly one error event
\* with the timeout flag, as its last event, and no result event.
C10_OneTimeoutError ==
  (ret.op \in Sends /\ ret.outcome = "timeout") =>
     /\ Count(ret.events, "error:timeout") = 1
     /\ ret.events[Len(ret.events)] = "error:timeout"
     /\ Count(ret.events, "result") = 0

\* A send or sendStream on s that has started and has not completed, and
\* that holds the record the registry holds.
InFlight(s) ==
  {o \in OpIds : ops[o].type \in Sends /\ ops[o].sid = s /\ ~ops[o].detached}

\* C11: when the child process of a sendStream whose consumer stopped
\* iterating has exited, and nothing else runs on the session, the session's
\* status is 'stable' or 'error'; it has not remained 'running'.
C11_AbandonedStreamSettles ==
  (/\ ret.op = "close" /\ ret.val = "abandoned"
   /\ ret.sid \in Registered
   /\ Running(ret.sid) = {} /\ InFlight(ret.sid) = {})
  => sessions[ret.sid].status \in {"stable", "error"}

ErrorEvents(q) == Count(q, "error") + Count(q, "error:timeout")

\* C12: for send and sendStream alike, when the adapter's event sequence of
\* an operation that nothing overlapped contains an error event, the session
\* is registered and its status is 'error' once the operation has completed.
C12_ErrorEventSetsError ==
  (/\ ret.op \in Sends /\ ret.alone
   /\ ret.val \in {"resolved", "rejected"}
   /\ ErrorEvents(ret.events) > 0)
  => /\ ret.sid \in Registered
     /\ sessions[ret.sid].status = "error"

\* C13: a registered session's status is 'running' only while a send or
\* sendStream on it has started and has not completed; a sendStream whose
\* consumer left is taken as not completed for as long as its child runs.
C13_RunningOnlyInFlight ==
  \A s \in Registered :
     sessions[s].status = "running" => (InFlight(s) # {} \/ Running(s) # {})

\* The step starts interruptSession(s) in slot o / ends the one in slot o.
InterruptStarts(o, s) ==
  ops[o].type = "idle" /\ ops'[o].type = "interrupt" /\ ops'[o].sid = s

InterruptEnds(o) ==
  ops[o].type = "interrupt" /\ ops[o].pc = "intr" /\ ops'[o].type = "idle"

\* The process the adapter of session s tracks for it, 0 for none.
Tracked(s) == activeProcesses[sessions[s].adapterName][s]

\* C14: interruptSession on a registered session whose adapter tracks no
\* process sends no signal, returns {interrupted: false, reason:
\* 'no_active_process'} and leaves the record (status, lastActivity) as it
\* was, with every registered adapter.
C14_InterruptWithoutProcess ==
  /\ [][\A o \in OpIds, s \in SessionIds :
          (InterruptStarts(o, s) /\ Tracked(s) = 0)
          => procs' = procs /\ sessions' = sessions]_vars
  /\ [][\A o \in OpIds :
          (/\ InterruptEnds(o)
           /\ ops[o].proc = 0
           /\ activeProcesses[ops[o].adapter][ops[o].sid] = 0)
          => ret'.val = "no_active_process" /\ sessions' = sessions]_vars

\* C15: interruptSession on a session whose adapter tracks a process that has
\* not exited, signalled before or not, sends it SIGINT, returns
\* interrupted = true with the status held before the call, and sets the
\* status to 'stable'.
C15_InterruptRunningProcess ==
  /\ [][\A o \in OpIds, s \in SessionIds :
          (/\ InterruptStarts(o, s)
           /\ Tracked(s) # 0 /\ procs[Tracked(s)].state = "running")
          => /\ "SIGINT" \in procs'[Tracked(s)].sigs
             /\ ops'[o].prev = sessions[s].status]_vars
  /\ [][\A o \in OpIds :
          (/\ InterruptEnds(o)
           /\ ops[o].proc # 0 /\ procs[ops[o].proc].state = "running")
          => /\ ret'.val = "interrupted" /\ ret'.prev = ops[o].prev
             /\ ~ops[o].detached => sessions'[ops[o].sid].status = "stable"]_vars

\* C16: every entry of an adapter's activeProcesses map refers to a process
\* that has not exited, and the close callback of a process removes its entry,
\* also when the consumer of its sendStream has stopped iterating.
C16_NoStaleEntry ==
  /\ [](\A a \in AdapterNames, s \in SessionIds :
          activeProcesses[a][s] # 0
          => procs[activeProcesses[a][s]].state = "running")
  /\ [][\A p \in ProcIds :
          (procs[p].state = "running" /\ procs'[p].state = "exited")
          => activeProcesses'[procs[p].adapter][procs[p].sid] # p]_vars

C16_Witness ==
  /\ ret.op = "close" /\ ret.val = "abandoned"
  /\ \A a \in AdapterNames : activeProcesses[a][ret.sid] = 0
  /\ \E p \in ProcIds : procs[p].state = "exited"

\* C17: a spawned process is in its adapter's activeProcesses map, under its
\* session id, from spawn until it has exited; a process that is still
\* running is always reachable through the map.
C17_RunningProcessTracked ==
  \A p \in ProcIds :
     procs[p].state = "running"
     => activeProcesses[procs[p].adapter][procs[p].sid] = p

C19_NoChildOutlivesShutdown ==
  \A p \in ProcIds :
     (ret.op = "shutdown" /\ ret.val = "done" /\ procs[p].state = "running")
     ~> (procs[p].state # "running")

\* The step is a segment of a send, sendStream, interruptSession or
\* terminateSession addressed to s, or the close callback of a child process
\* that a send on s spawned.
StepOn(s) ==
  \/ \E o \in OpIds, kind \in Sends : SendCall(o, s, kind)
  \/ \E o \in OpIds : TermCall(o, s)
  \/ \E o \in OpIds : InterruptCall(o, s)
  \/ \E o \in OpIds :
       /\ ops[o].sid = s
       /\ (SendFinish(o) \/ TermFinish(o) \/ InterruptFinish(o))
  \/ \E p \in ProcIds, code \in {0, 1} : procs[p].sid = s /\ ProcExit(p, code)

\* Everything that belongs to a session other than s stays as it is: its
\* record, its entry in the adapters' session maps and active-process maps,
\* and its child processes.
FrameOf(s) ==
  \A t \in SessionIds \ {s} :
     /\ sessions'[t] = sessions[t]
     /\ \A a \in AdapterNames :
           /\ (t \in adSessions'[a]) = (t \in adSessions[a])
           /\ activeProcesses'[a][t] = activeProcesses[a][t]
     /\ \A p \in ProcIds : procs[p].sid = t => procs'[p] = procs[p]

FailedEarly ==
  \/ ret'.op = "create" /\ ret'.val \in {"not registered", "not available"}
  \/ ret'.op \in Sends /\ ret'.val = "not found"

RunnerAdapters == {"claude-code", "codex-cli", "aichat"}

\* Text is a sequence of pieces. A JSON message of kind k is written as the
\* two pieces <<k, 1>>, <<k, 2>>; a chunk of stdout may end between them.
\* "wide" is an assistant text with a character of two bytes, the first at
\* the end of piece 1 and the second at the start of piece 2.
NL == <<"nl", 0>>
JsonKinds == {"text", "tool", "result"}
LineKinds == JsonKinds \cup {"junk", "wide"}
LineOf(k) == IF k = "junk" THEN << <<"junk", 1>> >> ELSE << <<k, 1>>, <<k, 2>> >>

\* What the child writes: up to MaxLines lines, the last one with or without
\* its newline.
RECURSIVE Written(_, _)
Written(ks, nl) ==
  IF ks = <<>> THEN <<>>
  ELSE LineOf(Head(ks)) \o (IF Len(ks) > 1 \/ nl THEN <<NL>> ELSE <<>>)
       \o Written(Tail(ks), nl)

Scripts == UNION {[1..n -> LineKinds] : n \in 0..MaxLines}

\* chunk.toString() of a Buffer: a byte sequence that is not complete UTF-8
\* within the chunk is decoded to U+FFFD, so the first byte of a two-byte
\* character at the end of a chunk (piece 3) and its second byte at the
\* start of the next chunk (piece 4) are both replaced.
BufferToString(bytes) ==
  [i \in 1..Len(bytes) |->
     IF bytes[i] = <<"wide", 1>> /\ i = Len(bytes) THEN <<"wide", 3>>
     ELSE IF bytes[i] = <<"wide", 2>> /\ i = 1 THEN <<"wide", 4>>
     ELSE bytes[i]]

\* The strings the messages carry, as pieces of text.
WideStr == << <<"w", 0>> >>
TornStr == << <<"?", 0>>, <<"?", 0>> >>
TextStr == << <<"t", 0>> >>
ResultStr == << <<"r", 0>> >>
ErrStr == << <<"e", 0>> >>
Token == "tok"

\* JSON.parse(line): the message's kind, or "fail" when it throws.
Parse(line) ==
  IF /\ Len(line) = 2
     /\ line[1][1] \in JsonKinds \cup {"wide"}
     /\ line = LineOf(line[1][1])
  THEN line[1][1]
  ELSE IF line = << <<"wide", 3>>, <<"wide", 4>> >> THEN "torn"
  ELSE "fail"

\* The kinds of message that carry assistant text, and the text carried.
TextKinds == {"text", "wide", "torn"}
TextOf(k) ==
  IF k = "text" THEN TextStr ELSE IF k = "wide" THEN WideStr ELSE TornStr

\* buffer.split('\n'): the segments between the newlines, the last one being
\* the text after the last newline.
RECURSIVE Split(_, _)
Split(text, cur) ==
  IF text = <<>> THEN <<cur>>
  ELSE IF Head(text) = NL THEN <<cur>> \o Split(Tail(text), <<>>)
  ELSE Split(Tail(text), Append(cur, Head(text)))

\* String.prototype.trim(): newlines are the only white space written.
RECURSIVE TrimLeft(_)
TrimLeft(text) ==
  IF text # <<>> /\ Head(text) = NL THEN TrimLeft(Tail(text)) ELSE text

RECURSIVE TrimRight(_)
TrimRight(text) ==
  IF text # <<>> /\ text[Len(text)] = NL
  THEN TrimRight(SubSeq(text, 1, Len(text) - 1))
  ELSE text

Trim(text) == TrimRight(TrimLeft(text))

\* The events a runner yields and the 'chunk' events it emits.
Ev(type, progressType, content) ==
  [type |-> type, progressType |-> progressType, content |-> content]

\* BaseLLMAdapter.sendAndWait, the body of its loop for one chunk of
\* adapter.send: 'text' chunks are accumulated while they fit, a 'result'
\* chunk is kept, an 'error' chunk is thrown.
SendAndWaitChunk(r, c) ==
  IF r.thrown # <<>> THEN r
  ELSE IF c.type = "text"
  THEN IF Len(r.fullResponse) + Len(c.content) < MaxResponseSize
       THEN [r EXCEPT !.fullResponse = @ \o c.content]
       ELSE [r EXCEPT !.truncated = TRUE]
  ELSE IF c.type = "result" THEN [r EXCEPT !.result = <<c.content>>]
  ELSE IF c.type = "error" THEN [r EXCEPT !.thrown = <<c.content>>]
  ELSE r

\* The chunk types an adapter's send passes on from its runner.
SendPasses(a) ==
  IF a = "claude-code" THEN {"chunk", "progress", "result", "error"}
  ELSE {"chunk", "result", "error"}

\* A runner's yield: adapter.send receives the event and yields its own,
\* which sendStream passes on and sendAndWait consumes.
Yield(r, e) ==
  LET r1 == [r EXCEPT !.yielded = Append(@, e)]
  IN IF e.type \in SendPasses(r.adapter)
     THEN SendAndWaitChunk([r1 EXCEPT !.events = Append(@, e)], e)
     ELSE r1

\* this.emit('chunk', ...) of the adapter.
EmitChunk(r, e) == [r EXCEPT !.emitted = Append(@, e)]

\* _runClaudeCommandStreaming, one complete line of stdout.
ClaudeLine(r, line) ==
  LET k == Parse(line)
      r1 == [r EXCEPT !.token = Token]
  IN IF k = "fail" THEN EmitChunk(r, Ev("chunk", "", line))
     ELSE IF k \in TextKinds
     THEN EmitChunk(Yield([r1 EXCEPT !.last = TextOf(k)],
                          Ev("progress", "assistant", TextOf(k))),
                    Ev("chunk", "assistant", TextOf(k)))
     ELSE IF k = "tool"
     THEN EmitChunk(Yield(r1, Ev("progress", "tool_use", <<>>)),
                    Ev("chunk", "tool_use", <<>>))
     ELSE [r1 EXCEPT !.finalResult = TRUE]

\* _runCodexCommandStreaming, one complete line of stdout.
CodexLine(r, line) ==
  LET k == Parse(line)
  IN IF k \in TextKinds
     THEN EmitChunk(Yield([r EXCEPT !.msgs = Append(@, TextOf(k))],
                          Ev("progress", "assistant", TextOf(k))),
                    Ev("chunk", "assistant", TextOf(k)))
     ELSE IF k = "tool" THEN Yield(r, Ev("progress", "tool_use", <<>>))
     ELSE r

\* The loop over the complete lines of a chunk; blank lines are skipped.
RECURSIVE Lines(_, _)
Lines(r, lines) ==
  IF lines = <<>> THEN r
  ELSE IF Head(lines) = <<>> THEN Lines(r, Tail(lines))
  ELSE Lines(IF r.adapter = "claude-code" THEN ClaudeLine(r, Head(lines))
             ELSE CodexLine(r, Head(lines)),
             Tail(lines))

RunnerChunkNoBuffer(r, chunk) ==
  IF r.adapter = "aichat"
  THEN Yield(EmitChunk([r EXCEPT !.fullOutput = @ \o chunk],
                       Ev("chunk", "", chunk)),
             Ev("chunk", "", chunk))
  ELSE LET segs == Split(chunk, <<>>)
       IN [Lines(r, SubSeq(segs, 1, Len(segs) - 1)) EXCEPT
             !.buffer = segs[Len(segs)]]

\* One chunk of stdout arrives in the runner's `for await`.
RunnerChunk(r, chunk) ==
  IF r.adapter = "aichat"
  THEN Yield(EmitChunk([r EXCEPT !.fullOutput = @ \o chunk],
                       Ev("chunk", "", chunk)),
             Ev("chunk", "", chunk))
  ELSE LET segs == Split(r.buffer \o chunk, <<>>)
       IN [Lines(r, SubSeq(segs, 1, Len(segs) - 1)) EXCEPT
             !.buffer = segs[Len(segs)]]

RunnerRestFails(r) ==
  IF r.adapter = "aichat" \/ r.buffer = <<>> THEN r
  ELSE LET k == Parse(r.buffer)
       IN IF k = "fail" THEN Yield(r, Ev("error", "", r.buffer))
          ELSE IF r.adapter = "claude-code"
          THEN [r EXCEPT !.finalResult = @ \/ k = "result", !.token = Token]
          ELSE [r EXCEPT !.msgs = IF k \in TextKinds
                                  THEN Append(@, TextOf(k)) ELSE @]

\* stdout has ended: what is left in the buffer is parsed without yielding.
RunnerRest(r) ==
  IF r.adapter = "aichat" \/ r.buffer = <<>> THEN r
  ELSE LET k == Parse(r.buffer)
       IN IF r.adapter = "claude-code"
          THEN [r EXCEPT !.finalResult = @ \/ k = "result",
                         !.token = IF k = "fail" THEN @ ELSE Token]
          ELSE [r EXCEPT !.msgs = IF k \in TextKinds
                                  THEN Append(@, TextOf(k)) ELSE @]

\* agentMessages.join('\n')
RECURSIVE Join(_)
Join(msgs) ==
  IF msgs = <<>> THEN <<>>
  ELSE IF Len(msgs) = 1 THEN msgs[1]
  ELSE msgs[1] \o <<NL>> \o Join(Tail(msgs))

\* The runner after `await processComplete`, neither timed out nor failed to
\* start: the error or the result it yields last.
ExitedStr == << <<"exited", 0>> >>

RunnerLast(r) ==
  IF r.adapter = "aichat"
  THEN IF r.code # 0 /\ r.fullOutput = <<>>
       THEN Ev("error", "", ExitedStr \o r.stderrOutput)
       ELSE Ev("result", "", Trim(r.fullOutput))
  ELSE IF r.code # 0 THEN Ev("error", "", ExitedStr)
  ELSE IF r.adapter = "claude-code"
  THEN Ev("result", "", IF r.finalResult THEN ResultStr ELSE r.last)
  ELSE Ev("result", "", Join(r.msgs))

\* The adapters whose runner listens to the child's stderr.
ReadsStderr == {"aichat"}

\* sendAndWait's return value, once adapter.send has ended without an error.
Answer(r) ==
  [text |-> r.fullResponse,
   result |-> IF r.result # <<>> /\ r.result[1] # <<>> THEN r.result[1]
              ELSE r.fullResponse,
   truncated |-> r.truncated]

\* A send as it starts: the child's behaviour (what it writes to stdout and
\* stderr, its exit code) and the runner's and sendAndWait's fresh locals.
NewRun(a, ks, nl, code, err) ==
  [pc |-> "reading", adapter |-> a, script |-> ks, nl |-> nl,
   out |-> Written(ks, nl), code |-> code,
   errText |-> err, stderrOutput |-> <<>>, buffer |-> <<>>,
   finalResult |-> FALSE, last |-> <<>>, token |-> "", msgs |-> <<>>,
   fullOutput |-> <<>>, yielded |-> <<>>, emitted |-> <<>>, events |-> <<>>,
   fullResponse |-> <<>>, result |-> <<>>, truncated |-> FALSE,
   thrown |-> <<>>]

InitRun ==
  /\ InitRegistry
  /\ run \in {NewRun(a, ks, nl, code, err) :
                a \in RunnerAdapters, ks \in Scripts, nl \in BOOLEAN,
                code \in {0, 1}, err \in {<<>>, ErrStr}}

\* The runner's `for await (const chunk of proc.stdout)` receives the next
\* n pieces of the child's output.
RunStdout(n) ==
  /\ run.pc = "reading"
  /\ n \in 1..Len(run.out)
  /\ run' = [RunnerChunk(run, BufferToString(SubSeq(run.out, 1, n))) EXCEPT
               !.out = SubSeq(run.out, n + 1, Len(run.out))]
  /\ UNCHANGED regVars

\* proc.stderr.on('data'): the text is appended to stderrOutput.
RunStderr ==
  /\ run.pc \in {"reading", "closing"}
  /\ run.adapter \in ReadsStderr
  /\ run.errText # <<>>
  /\ run' = [run EXCEPT !.stderrOutput = @ \o run.errText, !.errText = <<>>]
  /\ UNCHANGED regVars

\* stdout ends: the loop is left, the rest of the buffer is parsed and the
\* runner awaits processComplete.
RunStdoutEnd ==
  /\ run.pc = "reading"
  /\ run.out = <<>>
  /\ run' = [RunnerRest(run) EXCEPT !.pc = "closing"]
  /\ UNCHANGED regVars

\* 'close' with the exit code, after the child's streams have ended: the
\* runner yields its last event and adapter.send ends.
RunClose ==
  /\ run.pc = "closing"
  /\ run.adapter \in ReadsStderr => run.errText = <<>>
  /\ run' = [Yield(run, RunnerLast(run)) EXCEPT !.pc = "done"]
  /\ UNCHANGED regVars

NextRunner ==
  \/ \E n \in 1..MaxRead : RunStdout(n)
  \/ RunStderr
  \/ RunStdoutEnd
  \/ RunClose

SpecRunner == InitRun /\ [][NextRunner]_vars

\* ----------------------------------------------------- claims on one send

\* s occurs in t as a run of consecutive pieces.
Within(s, t) ==
  \E i \in 0..Len(t) : i + Len(s) <= Len(t) /\ SubSeq(t, i + 1, i + Len(s)) = s

\* What the child wrote to stderr, read by the runner or not.
StderrText == run.stderrOutput \o run.errText

\* The output of the child that the runner has captured.
Captured ==
  IF run.adapter = "aichat" THEN Trim(run.fullOutput)
  ELSE IF run.adapter = "claude-code"
  THEN IF run.finalResult THEN ResultStr ELSE run.last
  ELSE Join(run.msgs)

HasCaptured ==
  IF run.adapter = "aichat" THEN run.fullOutput # <<>> ELSE Captured # <<>>

LastEvent == run.events[Len(run.events)]

\* C22: for every adapter, when the child has exited with a non-zero code the
\* send ends with an error event that includes the captured stderr text if no
\* output was captured, and with a result event carrying the captured output,
\* not an error, if output was captured.
C22_NonZeroExit ==
  run.pc = "done" /\ run.code # 0 =>
    IF HasCaptured
    THEN LastEvent.type = "result" /\ LastEvent.content = Captured
    ELSE LastEvent.type = "error" /\ Within(StderrText, LastEvent.content)

\* s is an initial part of t.
Prefix(s, t) == Len(s) <= Len(t) /\ SubSeq(t, 1, Len(s)) = s

\* The events of a send of claude-code whose child writes an assistant text,
\* a tool call and the final result and exits with code 0.
ThreeLines == <<"text", "tool", "result">>
ThreeEvents ==
  <<Ev("progress", "assistant", TextStr), Ev("progress", "tool_use", <<>>),
    Ev("result", "", ResultStr)>>

\* C23: well-formed lines for one assistant text, one tool call and one final
\* result, in that order, with exit code 0, yield exactly one text progress
\* event, then one tool call event, then one result event, and no other
\* event, however stdout is cut into chunks.
C23_ThreeLinesThreeEvents ==
  run.pc # "none" /\ run.adapter = "claude-code" /\ run.script = ThreeLines
    /\ run.code = 0 =>
      /\ Prefix(run.events, ThreeEvents)
      /\ run.yielded = run.events
      /\ run.pc = "done" => run.events = ThreeEvents

C23_Witness ==
  /\ run.pc = "done" /\ run.adapter = "claude-code" /\ run.script = ThreeLines
  /\ run.code = 0
  /\ Len(run.events) = 3

\* C24: a completed line that fails to parse as JSON does not abort the send;
\* it is delivered in the send's event sequence as a raw chunk, and every
\* valid line after it still produces its event.
C24_JunkLinePassedOn ==
  run.pc = "done" /\ run.adapter \in {"claude-code", "codex-cli"}
    /\ run.code = 0 =>
      \A i \in 1..(Len(run.script) - 1) :
        run.script[i] = "junk" =>
          \E j \in 1..Len(run.events) :
            /\ run.events[j].type \in {"chunk", "progress"}
            /\ run.events[j].content = LineOf("junk")
            /\ \A k \in (i + 1)..Len(run.script) :
                 run.script[k] = "text" =>
                   \E l \in (j + 1)..Len(run.events) :
                     run.events[l] = Ev("progress", "assistant", TextStr)

\* ---------------------------------------- the sends of one claude session

\* ClaudeCodeAdapter.spawn: the session record of the adapter, with the sends
\* adapter.send has in flight on it, the number of conversation ids the CLI
\* has issued, and the tokens that results have carried since the last send
\* was started.
NewResume ==
  [pc |-> "session", claudeSessionId |-> 0,
   calls |-> [o \in OpIds |-> [pc |-> "idle", resume |-> 0]],
   issued |-> 0, started |-> 0, owed |-> {}]

InitResume == InitRegistry /\ run = NewResume

\* adapter.send up to the spawn of the CLI: `--resume <claudeSessionId>` is
\* passed when the record has one.
ResumeSend(o) ==
  /\ run.pc = "session"
  /\ run.calls[o].pc = "idle"
  /\ run.started < MaxSends
  /\ run' = [run EXCEPT !.calls[o] = [pc |-> "running",
                                      resume |-> run.claudeSessionId],
                        !.started = @ + 1,
                        !.owed = {}]
  /\ UNCHANGED regVars

\* The session ids a CLI run can report: the one it resumed or a new one.
Reported(o) ==
  (IF run.calls[o].resume # 0 THEN {run.calls[o].resume} ELSE {})
    \cup (IF run.issued < MaxTokens THEN {run.issued + 1} ELSE {})

\* The runner's result chunk reaches adapter.send: a session id it carries
\* is stored in the record.
ResumeResult(o, tok) ==
  /\ run.pc = "session"
  /\ run.calls[o].pc = "running"
  /\ tok \in Reported(o) \cup {0}
  /\ run' = [run EXCEPT !.calls[o] = [pc |-> "idle", resume |-> 0],
                        !.claudeSessionId = IF tok # 0 THEN tok ELSE @,
                        !.issued = IF tok > @ THEN tok ELSE @,
                        !.owed = IF tok # 0 THEN @ \cup {tok} ELSE @]
  /\ UNCHANGED regVars

\* The runner's error chunk reaches adapter.send: the record is left alone.
ResumeError(o) ==
  /\ run.pc = "session"
  /\ run.calls[o].pc = "running"
  /\ run' = [run EXCEPT !.calls[o] = [pc |-> "idle", resume |-> 0]]
  /\ UNCHANGED regVars

NextResume ==
  \/ \E o \in OpIds : ResumeSend(o)
  \/ \E o \in OpIds, tok \in 0..MaxTokens : ResumeResult(o, tok)
  \/ \E o \in OpIds : ResumeError(o)

SpecResume == InitResume /\ [][NextResume]_vars

\* C25: a token carried by a send's result is passed as --resume by the next
\* send started on the session, and the first send of a session passes none.
C25_NextSendResumes ==
  [][\A o \in OpIds :
       run.calls[o].pc = "idle" /\ run'.calls[o].pc = "running" =>
         /\ \A tok \in run.owed : run'.calls[o].resume = tok
         /\ run.started = 0 => run'.calls[o].resume = 0]_vars

\* The response text that adapter.send has streamed, all chunks together.
RECURSIVE StreamedOf(_)
StreamedOf(evs) ==
  IF evs = <<>> THEN <<>>
  ELSE (IF Head(evs).type \in {"text", "chunk"}
           \/ (Head(evs).type = "progress"
                 /\ Head(evs).progressType = "assistant")
        THEN Head(evs).content ELSE <<>>) \o StreamedOf(Tail(evs))

Streamed == StreamedOf(run.events)

\* C26: once the response of a send has reached the configured maximum size,
\* further output is discarded, so that the text returned stays within the
\* bound, and the metadata returned report truncated = true.
C26_TruncatedAtMaxSize ==
  run.pc = "done" /\ run.thrown = <<>> /\ Len(Streamed) >= MaxResponseSize =>
    /\ Answer(run).truncated
    /\ Len(Answer(run).text) <= MaxResponseSize

\* C28: for every adapter, the object returned by send has a text field equal
\* to the assistant text the adapter streamed during the send and a result
\* field equal to the final result's content.
C28_TextAndResult ==
  run.pc = "done" /\ run.thrown = <<>> =>
    /\ Answer(run).text = Streamed
    /\ Answer(run).result = LastEvent.content

\* ------------------------------------------------------- getSessionStatus

StatusCallResets(s) ==
  /\ sessions' = IF sessions[s] = NoSession THEN sessions
                 ELSE [sessions EXCEPT ![s].status = "stable"]
  /\ ret' = Return("status", s, IF sessions[s] = NoSession THEN "null"
                                ELSE "object")
  /\ UNCHANGED <<run, now, sessOrder, adSessions, activeProcesses, procs,
                 nextProc, grace, ops, sweep, down>>

\* getSessionStatus(s): null for a key the registry does not hold, else an
\* object read from the record, the adapter's activeProcesses and the clock.
StatusCall(s) ==
  /\ ret' =
       IF sessions[s] = NoSession THEN Return("status", s, "null")
       ELSE [Return("status", s, "object") EXCEPT !.info =
               [status |-> sessions[s].status,
                lastActivity |-> sessions[s].lastActivity,
                messageCount |-> sessions[s].messageCount,
                adapterName |-> sessions[s].adapterName,
                hasActiveProcess |->
                  activeProcesses[sessions[s].adapterName][s] # 0,
                idleMs |-> now - sessions[s].lastActivity]]
  /\ UNCHANGED <<run, now, sessions, sessOrder, adSessions, activeProcesses,
                 procs, nextProc, grace, ops, sweep, down>>

\* The registry under createSession, send and terminateSession, with
\* getSessionStatus called at any point, on the
\* ids in use and on one that is never registered.
NextStatus ==
  \/ CreateSteps(CoreIds, {"claude-code"})
  \/ TermSteps(CoreIds)
  \/ SendSteps(CoreIds, {"send"})
  \/ \E s \in SessionIds : StatusCall(s)

SpecStatus == Init /\ [][NextStatus]_vars

Creates(s) == ret'.op = "create" /\ ret'.val = "ok" /\ ret'.sid = s

\* The step starts a send or a sendStream on s.
Starts(s) ==
  \E o \in OpIds :
    ops[o].type = "idle" /\ ops'[o].type \in Sends /\ ops'[o].sid = s

\* C29: messageCount is 0 at creation, grows by exactly 1 with each send or
\* sendStream started on the session, whether it succeeds or fails later,
\* and changes in no other step, so that it never decreases.
C29_MessageCount ==
  [][\A s \in SessionIds :
       IF Creates(s) THEN sessions'[s].messageCount = 0
       ELSE sessions'[s] # NoSession =>
              /\ sessions[s] # NoSession
              /\ sessions'[s].messageCount =
                   sessions[s].messageCount + (IF Starts(s) THEN 1 ELSE 0)]_vars

C29_Witness ==
  \E s \in SessionIds :
    /\ sessions[s].messageCount = MaxMsgs
    /\ sessions[s].status = "error"
    /\ ret.op \in Sends /\ ret.sid = s /\ ret.val = "rejected"

\* ------------------------------------------------ the causes of a removal

\* The registry under createSession with eviction, explicit terminateSession
\* and the idle sweep, with the clock advancing.
SignalIds == {1, 2}

NextSignals ==
  \/ CreateSteps(SignalIds, {"claude-code"})
  \/ TermSteps(SignalIds)
  \/ Tick
  \/ SweepSteps

SpecSignals == Init /\ [][NextSignals]_vars

\* C30: 'session:timeout' is emitted for a session only when the idle sweep
\* itself removed it, 'session:evicted' only when the capacity eviction itself
\* removed it, and the return of an explicit terminateSession emits neither.
C30_SignalsTellCause ==
  [][\A s \in SessionIds :
       /\ <<"session:timeout", s>> \in ret'.sig => sweep.removed
       /\ <<"session:evicted", s>> \in ret'.sig =>
            \E o \in OpIds :
              /\ ops[o].pc = "evict2" /\ ops'[o].pc = "spawn"
              /\ ops[o].victim = s /\ ops[o].removed
       /\ ret'.op = "terminate" =>
            /\ <<"session:timeout", s>> \notin ret'.sig
            /\ <<"session:evicted", s>> \notin ret'.sig]_vars

\* C31: for every adapter, when a session is terminated while its child
\* process runs, the process is sent SIGTERM and a force-kill timer is armed,
\* and when that timer fires on a process that has not exited the process is
\* sent SIGKILL.
C31_TerminateEscalation ==
  /\ [][\A a \in AdapterNames, s \in SessionIds :
          (/\ s \in adSessions[a] /\ s \notin adSessions'[a]
           /\ activeProcesses[a][s] # 0
           /\ procs[activeProcesses[a][s]].state = "running")
          => /\ "SIGTERM" \in procs'[activeProcesses[a][s]].sigs
             /\ activeProcesses[a][s] \in grace']_vars
  /\ [][\A p \in ProcIds :
          (p \in grace /\ p \notin grace' /\ procs[p].state = "running")
          => "SIGKILL" \in procs'[p].sigs]_vars

\* The send whose child writes the same bytes as run's, read in one chunk.
InOneChunk ==
  LET r0 == NewRun(run.adapter, run.script, run.nl, run.code, <<>>)
      r1 == RunnerRest(RunnerChunk(r0, BufferToString(r0.out)))
  IN Yield(r1, RunnerLast(r1))

\* C32: the events produced from a child's standard output depend only on the
\* bytes written, not on how they are split into chunks: whatever the split,
\* the events are those of the same bytes read in one chunk.
C32_ChunkingIsInvisible ==
  run.pc = "done" /\ run.adapter \in {"claude-code", "codex-cli"} =>
    /\ run.yielded = InOneChunk.yielded
    /\ run.events = InOneChunk.events

\* The number of events of q that carry the unparsable line.
RECURSIVE JunkIn(_)
JunkIn(q) ==
  IF q = <<>> THEN 0
  ELSE (IF Head(q).content = LineOf("junk") THEN 1 ELSE 0) + JunkIn(Tail(q))

\* The child's last line is not JSON and has no newline after it.
JunkLeft ==
  /\ run.adapter \in {"claude-code", "codex-cli"}
  /\ ~run.nl /\ run.script # <<>>
  /\ run.script[Len(run.script)] = "junk"

\* C33: an unterminated last line that is left in the buffer when stdout ends
\* and fails to parse is discarded silently: nothing is yielded or emitted
\* for it, the send does not throw, and it does not end in an error event
\* because of it.
C33_TrailingJunkDropped ==
  run.pc \in {"closing", "done"} /\ JunkLeft =>
    /\ JunkIn(run.yielded) = 0
    /\ JunkIn(run.emitted) =
         IF run.adapter = "claude-code"
         THEN Cardinality({i \in 1..(Len(run.script) - 1) :
                             run.script[i] = "junk"})
         ELSE 0
    /\ run.pc = "closing" => run.thrown = <<>>
    /\ run.pc = "done" /\ run.code = 0 =>
         run.thrown = <<>> /\ LastEvent.type = "result"

C33_Witness ==
  /\ run.pc = "done" /\ JunkLeft /\ run.adapter = "claude-code"
  /\ run.script = <<"text", "junk">> /\ run.code = 0
  /\ LastEvent = Ev("result", "", TextStr)

\* ---------------------------------------------------------------- removal
\* The three ways a session leaves the registry while it is in use:
\* terminateSession, the idle sweep and the eviction at the session limit,
\* with createSession and send on two ids of a lazy adapter and the clock.
RemoveIds == {1, 2}

NextRemove ==
  \/ CreateSteps(RemoveIds, {"claude-code"})
  \/ TermSteps(RemoveIds)
  \/ SendSteps(RemoveIds, {"send"})
  \/ Tick
  \/ SweepSteps

SpecRemove == Init /\ [][NextRemove]_vars

\* The step is the last segment of a send whose session was taken out of the
\* registry after the send had looked it up.
OrphanEnds(o) ==
  /\ ops[o].type \in Sends /\ ops[o].pc = "fin" /\ ops[o].detached
  /\ ops'[o].type = "idle"

\* C34: a session that was removed is registered again only by the last
\* segment of a createSession given its id, and the end of a send that was
\* in flight when its session was removed, resolved or rejected, leaves the
\* whole registry as it was.
C34_RemovedStaysRemoved ==
  [][/\ \A s \in SessionIds :
          sessions[s] = NoSession /\ sessions'[s] # NoSession =>
            \E o \in OpIds : /\ ops[o].type = "create" /\ ops[o].pc = "set"
                             /\ ops[o].sid = s /\ ops'[o].type = "idle"
     /\ \A o \in OpIds : OrphanEnds(o) =>
          sessions' = sessions /\ sessOrder' = sessOrder]_vars

\* A send has just been rejected whose session is gone while another
\* session is registered.
C34_Witness ==
  /\ ret.op = "send" /\ ret.val = "rejected"
  /\ sessions[ret.sid] = NoSession
  /\ Registered # {}

\* C35: when a createSession that no other operation overlapped has failed,
\* the registry holds the sessions it held when the call checked the session
\* limit: none of them has been evicted.
C35_FailedCreateEvictsNothing ==
  ret.op = "create" /\ ret.val # "ok" /\ ret.alone /\ ret.atCap =>
    Registered = Held(ret.pre)

\* C36: every 'session:terminated' and every terminateSession that returns
\* true belongs to a step that takes the session out of the registry, so that
\* overlapping terminateSession calls on one session, whoever makes them,
\* report one removal once.
C36_OneTerminationReported ==
  [][\A s \in SessionIds :
       \/ <<"session:terminated", s>> \in ret'.sig
       \/ ret'.op = "terminate" /\ ret'.sid = s /\ ret'.val = "true"
       => sessions[s] # NoSession /\ sessions'[s] = NoSession]_vars

\* The step is the delete of the sweep's or of the eviction's terminateSession
\* and takes s out of the registry.
SweptOrEvicted(s) ==
  /\ sessions[s] # NoSession /\ sessions'[s] = NoSession
  /\ \/ sweep.pc = "term" /\ sweep'.pc = "emit" /\ Head(sweep.list) = s
     \/ \E o \in OpIds : /\ ops[o].pc = "evict1" /\ ops'[o].pc = "evict2"
                         /\ ops[o].victim = s

\* C37: the sweep and the eviction never take a session out of the registry
\* whose status is 'running'.
C37_RunningNotRemoved ==
  [][\A s \in SessionIds :
       SweptOrEvicted(s) => sessions[s].status # "running"]_vars

\* The step is the last segment of a send that interruptSession reported as
\* interrupted, on a record that no send has been started on since.
InterruptedEnds(o) ==
  /\ ops[o].type \in Sends /\ ops[o].pc = "fin" /\ ops'[o].type = "idle"
  /\ ops[o].interrupted /\ ~ops[o].detached
  /\ sessions[ops[o].sid].status = "stable"

\* C38: the end of a send that was interrupted leaves the status 'stable'
\* that interruptSession stored, as long as no further send was started.
C38_InterruptedStaysStable ==
  [][\A o \in OpIds :
       InterruptedEnds(o) => sessions'[ops[o].sid].status = "stable"]_vars

\* The step ends a createSession that no other operation overlapped and whose
\* id is registered, as it was when the call was made.
RegisteredIdGiven(o) ==
  /\ ops[o].type = "create" /\ ops[o].alone
  /\ sessions[ops[o].sid] # NoSession
  /\ ops'[o].type = "idle"

\* C39: a createSession given a registered id fails, and the record under
\* the id, with its adapter binding, and the adapters' sessions are what they
\* were.
C39_RegisteredIdRefused ==
  [][\A o \in OpIds :
       RegisteredIdGiven(o) =>
         /\ ret'.val # "ok"
         /\ sessions'[ops[o].sid] = sessions[ops[o].sid]
         /\ adSessions' = adSessions]_vars

\* ------------------------------------------- the sessions of the gemini CLI
\* GeminiCliAdapter seen from inside: ref is the geminiSessionRef of each
\* session the adapter holds ("-" for none), spawning the ids whose init run
\* is in flight, store the conversations the CLI keeps for the working
\* directory, oldest first, each named by the session whose spawn created it,
\* and resumed the last send with the conversation its reference designated.
GeminiIds == {1, 2}

NewGemini ==
  [pc |-> "gemini", ref |-> [s \in GeminiIds |-> "-"], spawning |-> {},
   store |-> <<>>, resumed |-> [by |-> 0, of |-> 0]]

InitGemini == InitRegistry /\ run = NewGemini

\* What the CLI resumes for "-r latest": the most recent conversation.
Latest(store) == IF store = <<>> THEN 0 ELSE store[Len(store)]

\* spawn up to "await this._runGeminiCommand(args, { workDir })": it throws
\* for an id the adapter holds and otherwise starts the init run.
GeminiSpawn(s) ==
  /\ run.pc = "gemini"
  /\ run.ref[s] = "-" /\ s \notin run.spawning
  /\ Len(run.store) + Cardinality(run.spawning) < MaxTokens
  /\ run' = [run EXCEPT !.spawning = @ \cup {s}]
  /\ UNCHANGED regVars

\* The init run ends: the CLI has created a conversation and the adapter
\* stores the session with the reference 'latest'; a failed run rejects spawn.
GeminiInit(s, ok) ==
  /\ run.pc = "gemini"
  /\ s \in run.spawning
  /\ run' = IF ok
            THEN [run EXCEPT !.spawning = @ \ {s},
                             !.store = Append(@, s),
                             !.ref[s] = "latest"]
            ELSE [run EXCEPT !.spawning = @ \ {s}]
  /\ UNCHANGED regVars

\* send: "-r session.geminiSessionRef" is passed to the CLI, which resumes
\* the conversation the reference designates.
GeminiSend(s) ==
  /\ run.pc = "gemini"
  /\ run.ref[s] # "-"
  /\ run' = [run EXCEPT !.resumed = [by |-> s, of |-> Latest(run.store)]]
  /\ UNCHANGED regVars

\* terminate: the adapter forgets the session; the CLI keeps the conversation.
GeminiTerminate(s) ==
  /\ run.pc = "gemini"
  /\ run.ref[s] # "-"
  /\ run' = [run EXCEPT !.ref[s] = "-"]
  /\ UNCHANGED regVars

NextGemini ==
  \/ \E s \in GeminiIds : GeminiSpawn(s)
  \/ \E s \in GeminiIds, ok \in BOOLEAN : GeminiInit(s, ok)
  \/ \E s \in GeminiIds : GeminiSend(s)
  \/ \E s \in GeminiIds : GeminiTerminate(s)

SpecGemini == InitGemini /\ [][NextGemini]_vars

\* C40: the conversation that a send on a session resumes is one that the
\* session itself created.
C40_OwnConversationResumed ==
  run.pc = "gemini" /\ run.resumed.by # 0 => run.resumed.of = run.resumed.by

====
